---------------------------- MODULE Spec2Model ----------------------------
(***************************************************************************)
(* Model of tfhe/src/core_crypto/commons/traits/container.rs (the Split    *)
(* and ParSplit chunking traits over slices) and of tfhe/examples/bounty.rs *)
(* (accumulator construction, programmable bootstrap driver and decoder).  *)
(*                                                                         *)
(* A u64 is a tuple of 8 base-256 limbs, least significant first, so that  *)
(* 64-bit wrapping and overflow are computed exactly.                      *)
(***************************************************************************)
EXTENDS Integers, Sequences, FiniteSets, TLC

(***************************************************************************)
(* u64 arithmetic                                                          *)
(***************************************************************************)
LimbBase == 2^8
U64Limbs == 64 \div 8

RECURSIVE TupleFrom(_, _, _)
\* the tuple <<f[i], ..., f[n]>>, built by halves
TupleFrom(f, i, n) ==
    IF i > n THEN <<>>
    ELSE IF i = n THEN <<f[i]>>
    ELSE TupleFrom(f, i, (i + n) \div 2) \o TupleFrom(f, ((i + n) \div 2) + 1, n)

\* the u64 whose value is the natural n, n < 2^31
U64(n) ==
    TupleFrom([i \in 1..U64Limbs |->
                 IF i <= 4 THEN (n \div LimbBase^(i-1)) % LimbBase ELSE 0], 1, U64Limbs)

U64Zero == U64(0)
U64One == U64(1)
U64Max == TupleFrom([i \in 1..U64Limbs |-> LimbBase - 1], 1, U64Limbs)

\* a limb tuple widened (or cut) to n limbs
Resize(a, n) == TupleFrom([i \in 1..n |-> IF i <= Len(a) THEN a[i] ELSE 0], 1, n)

RECURSIVE AddLimbs(_, _, _, _)
\* limbs i.. of a + b + carry, for tuples of equal length, with a final carry limb
AddLimbs(a, b, i, carry) ==
    IF i > Len(a) THEN <<carry>>
    ELSE LET s == a[i] + b[i] + carry
         IN  <<s % LimbBase>> \o AddLimbs(a, b, i + 1, s \div LimbBase)

\* the sum with its carry-out limb; the wrapped sum
AddFull(a, b) == AddLimbs(a, b, 1, 0)
WrappingAdd(a, b) == SubSeq(AddFull(a, b), 1, Len(a))

Complement(a) == TupleFrom([i \in 1..Len(a) |-> LimbBase - 1 - a[i]], 1, Len(a))

\* u64::wrapping_neg: two's complement negation
WrappingNeg(a) == WrappingAdd(Complement(a), Resize(<<1>>, Len(a)))
WrappingSub(a, b) == WrappingAdd(a, WrappingNeg(b))

RECURSIVE ColumnSum(_, _, _, _)
\* sum of a[i] * b[k + 1 - i] for i..Len(a)
ColumnSum(a, b, k, i) ==
    IF i > Len(a) THEN 0
    ELSE (IF k + 1 - i >= 1 /\ k + 1 - i <= Len(b) THEN a[i] * b[k + 1 - i] ELSE 0)
         + ColumnSum(a, b, k, i + 1)

RECURSIVE MulLimbs(_, _, _, _)
\* limbs k.. of the full 2n-limb product
MulLimbs(a, b, k, carry) ==
    IF k > 2 * Len(a) THEN <<>>
    ELSE LET s == ColumnSum(a, b, k, 1) + carry
         IN  <<s % LimbBase>> \o MulLimbs(a, b, k + 1, s \div LimbBase)

MulFull(a, b) == MulLimbs(a, b, 1, 0)
WrappingMul(a, b) == SubSeq(MulFull(a, b), 1, Len(a))
MulOverflows(a, b) ==
    LET p == MulFull(a, b) IN \E k \in (Len(a) + 1)..(2 * Len(a)) : p[k] # 0

RECURSIVE GeFrom(_, _, _)
\* a >= b comparing limbs i down to 1
GeFrom(a, b, i) ==
    IF i = 0 THEN TRUE
    ELSE IF a[i] # b[i] THEN a[i] > b[i]
    ELSE GeFrom(a, b, i - 1)

Ge(a, b) == GeFrom(a, b, Len(a))
Lt(a, b) == ~Ge(a, b)

\* bit n (0 = least significant) of a
Bit(a, n) == (a[(n \div 8) + 1] \div 2^(n % 8)) % 2

\* limb j of a, 0 outside 1..Len(a)
Limb(a, j) == IF j >= 1 /\ j <= Len(a) THEN a[j] ELSE 0

\* a << k and a >> k (0 <= k < 8 * Len(a)); bits shifted out are lost
Shl(a, k) ==
    LET q == k \div 8
        r == k % 8
    IN  TupleFrom([i \in 1..Len(a) |->
                     ((Limb(a, i - q) * 2^r) % LimbBase)
                     + (Limb(a, i - q - 1) \div 2^(8 - r))], 1, Len(a))
Shr(a, k) ==
    LET q == k \div 8
        r == k % 8
    IN  TupleFrom([i \in 1..Len(a) |->
                     (Limb(a, i + q) \div 2^r)
                     + ((Limb(a, i + q + 1) * 2^(8 - r)) % LimbBase)], 1, Len(a))

\* a & (u64::MAX << 1): clear the least significant bit
ClearLsb(a) == [a EXCEPT ![1] = a[1] - (a[1] % 2)]

RECURSIVE DivBits(_, _, _, _, _, _)
\* binary long division over the bits t..0 of one limb of the dividend: the
\* quotient digit and the remainder, <<q, rem>>.  b is the divisor and nb its
\* complement (so that r1 - b = r1 + nb + 1), both one limb wider than the
\* dividend so that 2 * rem + 1 fits
DivBits(limb, b, nb, t, q, rem) ==
    IF t < 0 THEN <<q, rem>>
    ELSE LET r1 == SubSeq(AddLimbs(rem, rem, 1, (limb \div 2^t) % 2), 1, Len(rem))
         IN  IF Ge(r1, b)
             THEN DivBits(limb, b, nb, t - 1, 2 * q + 1,
                          SubSeq(AddLimbs(r1, nb, 1, 1), 1, Len(rem)))
             ELSE DivBits(limb, b, nb, t - 1, 2 * q, r1)

RECURSIVE DivLimbs(_, _, _, _, _)
\* long division over the limbs i..1 of a, most significant first: the
\* quotient's limbs, least significant first
DivLimbs(a, b, nb, i, rem) ==
    IF i = 0 THEN <<>>
    ELSE LET step == DivBits(a[i], b, nb, 7, 0, rem)
         IN  DivLimbs(a, b, nb, i - 1, step[2]) \o <<step[1]>>

\* a / b on u64, b # 0
Div(a, b) ==
    LET bw == Resize(b, Len(a) + 1)
    IN  DivLimbs(a, bw, Complement(bw), Len(a), Resize(<<>>, Len(a) + 1))

(***************************************************************************)
(* State                                                                   *)
(***************************************************************************)
VARIABLES
    debug_assertions,   \* cfg!(debug_assertions): debug_assert_eq! and overflow checks are compiled in
    buf,                \* the slice the Split / ParSplit methods are called on
    last,               \* the last call: [op, arg, res]
    phase,              \* "idle", "forked" (workers hold the chunk views), "joined", "aborted"
    wpos,               \* per worker, the next index of its chunk view it writes
    buf0,               \* the slice as it was when the call was made
    writers,            \* per element, the workers that have written it since the fork
    out_of_order,       \* some worker wrote before a worker of an earlier chunk had finished
    gen,                \* a call of generate_accumulator: its arguments and what it returned
    main,               \* the locals of bounty.rs main and its position
    dec                 \* a run of the decoder: message, noise, raw value and decoded result

containerVars == <<buf, last, phase, wpos, buf0, writers, out_of_order>>
vars == <<debug_assertions, buf, last, phase, wpos, buf0, writers, out_of_order, gen, main, dec>>

\* sizes explored
MaxLen == 5
MaxArg == 5

ElemValues == {0, 1}

\* the values of gen, main and dec while no such run is under way
NoGen == [pc |-> "unused"]
NoMain == [pc |-> "unused"]
NoDec == [pc |-> "unused"]

RECURSIVE SeqsUpTo(_)
\* all slices of at most n elements
SeqsUpTo(n) == IF n = 0 THEN {<<>>} ELSE SeqsUpTo(n - 1) \cup [1..n -> ElemValues]

(***************************************************************************)
(* Outcomes of a call: the chunk views it returns, as index ranges         *)
(* <<lo, hi>> standing for self[lo..hi], or the panic that ends it.        *)
(***************************************************************************)
Returned(chunks) == [outcome |-> "ok", chunks |-> chunks]
AssertFailed == [outcome |-> "assert_failed", chunks |-> <<>>]
Panicked == [outcome |-> "panic", chunks |-> <<>>]
NoCall == [op |-> "none", arg |-> 0, res |-> Returned(<<>>)]

Min(a, b) == IF a <= b THEN a ELSE b

\* core::slice::chunks_exact: floor(len / chunk_size) chunks of chunk_size
\* elements, the remainder left out; panics if chunk_size is 0
chunks_exact(self, chunk_size) ==
    IF chunk_size = 0 THEN Panicked
    ELSE Returned(TupleFrom([i \in 1..(Len(self) \div chunk_size) |->
                               <<(i - 1) * chunk_size, i * chunk_size>>],
                            1, Len(self) \div chunk_size))

chunks_exact_mut(self, chunk_size) ==
    IF chunk_size = 0 THEN Panicked
    ELSE Returned(TupleFrom([i \in 1..(Len(self) \div chunk_size) |->
                               <<(i - 1) * chunk_size, i * chunk_size>>],
                            1, Len(self) \div chunk_size))

\* rayon par_chunks: ceil(len / chunk_size) chunks, the last one possibly
\* shorter; panics if chunk_size is 0
par_chunks(self, chunk_size) ==
    IF chunk_size = 0 THEN Panicked
    ELSE LET n == (Len(self) + chunk_size - 1) \div chunk_size
         IN  Returned(TupleFrom([i \in 1..n |->
                                   <<(i - 1) * chunk_size, Min(i * chunk_size, Len(self))>>],
                                1, n))

\* faulty variant: each view one element too long, overlapping the next
par_chunks_mut_overlapping(self, chunk_size) ==
    IF chunk_size = 0 THEN Panicked
    ELSE LET n == (Len(self) + chunk_size - 1) \div chunk_size
         IN  Returned(TupleFrom([i \in 1..n |->
                                   <<(i - 1) * chunk_size,
                                     Min(i * chunk_size + 1, Len(self))>>],
                                1, n))

par_chunks_mut(self, chunk_size) ==
    IF chunk_size = 0 THEN Panicked
    ELSE LET n == (Len(self) + chunk_size - 1) \div chunk_size
         IN  Returned(TupleFrom([i \in 1..n |->
                                   <<(i - 1) * chunk_size, Min(i * chunk_size, Len(self))>>],
                                1, n))

\* faulty variant: the divisibility assertion left out
NoAssertDivides(self, d, then) == then

\* debug_assert_eq!(self.len() % d, 0): with debug assertions the remainder is
\* computed (a panic for d = 0) and compared; without them nothing is evaluated
DebugAssertDivides(self, d, then) ==
    IF ~debug_assertions THEN then
    ELSE IF d = 0 THEN Panicked
    ELSE IF Len(self) % d # 0 THEN AssertFailed
    ELSE then

\* debug_assert_eq!(self.len(), 0)
DebugAssertEmpty(self, then) ==
    IF debug_assertions /\ Len(self) # 0 THEN AssertFailed ELSE then

(***************************************************************************)
(* impl Split for &[T] and for &mut [T]                                    *)
(***************************************************************************)
\* faulty variant: the chunk size taken for a chunk count
into_chunks_as_count(self, chunk_size) ==
    DebugAssertDivides(self, chunk_size,
                       IF chunk_size = 0 THEN Panicked
                       ELSE chunks_exact(self, Len(self) \div chunk_size))

into_chunks(self, chunk_size) ==
    DebugAssertDivides(self, chunk_size, chunks_exact(self, chunk_size))

\* faulty variant: no special case for a chunk count of 0, so that the chunk length
\* self.len() / 0 is computed
split_into_no_zero_case(self, chunk_count) ==
    IF chunk_count = 0
    THEN Panicked
    ELSE DebugAssertDivides(self, chunk_count,
                            chunks_exact(self, Len(self) \div chunk_count))

split_into(self, chunk_count) ==
    IF chunk_count = 0
    THEN DebugAssertEmpty(self, chunks_exact(self, 1))
    ELSE DebugAssertDivides(self, chunk_count,
                            chunks_exact(self, Len(self) \div chunk_count))

into_chunks_mut(self, chunk_size) ==
    DebugAssertDivides(self, chunk_size, chunks_exact_mut(self, chunk_size))

split_into_mut(self, chunk_count) ==
    IF chunk_count = 0
    THEN DebugAssertEmpty(self, chunks_exact_mut(self, 1))
    ELSE DebugAssertDivides(self, chunk_count,
                            chunks_exact_mut(self, Len(self) \div chunk_count))

(***************************************************************************)
(* impl ParSplit for &[T] and for &mut [T]                                 *)
(***************************************************************************)
\* faulty variant: exact chunks (par_chunks_exact) in place of par_chunks
into_par_chunks_exact(self, chunk_size) == chunks_exact(self, chunk_size)

into_par_chunks(self, chunk_size) == par_chunks(self, chunk_size)

\* faulty variant: the chunk count passed on as the chunk size
par_split_into_as_size(self, chunk_count) ==
    IF chunk_count = 0
    THEN par_chunks(self, 1)
    ELSE par_chunks(self, chunk_count)

par_split_into(self, chunk_count) ==
    IF chunk_count = 0
    THEN par_chunks(self, 1)
    ELSE par_chunks(self, Len(self) \div chunk_count)

into_par_chunks_mut(self, chunk_size) == par_chunks_mut(self, chunk_size)

par_split_into_mut(self, chunk_count) ==
    IF chunk_count = 0
    THEN par_chunks_mut(self, 1)
    ELSE par_chunks_mut(self, Len(self) \div chunk_count)

(***************************************************************************)
(* Workers over the mutable parallel chunk views.  Worker i owns view i    *)
(* and rewrites its elements left to right, reading only its own view:     *)
(* each element becomes the running sum of its view, seeded with i.        *)
(***************************************************************************)
Kernel(b, i, lo, j) == (b[j + 1] + (IF j > lo THEN b[j] ELSE i)) % 2

RECURSIVE ProcessChunk(_, _, _, _, _)
\* worker i's whole run over self[lo..hi], from index j on
ProcessChunk(b, i, lo, hi, j) ==
    IF j >= hi \/ j >= Len(b) THEN b
    ELSE ProcessChunk([b EXCEPT ![j + 1] = Kernel(b, i, lo, j)], i, lo, hi, j + 1)

RECURSIVE ProcessInOrder(_, _, _)
\* the chunks processed one after the other, in order, from chunk i on
ProcessInOrder(b, chunks, i) ==
    IF i > Len(chunks) THEN b
    ELSE ProcessInOrder(ProcessChunk(b, i, chunks[i][1], chunks[i][2], chunks[i][1]),
                        chunks, i + 1)

(***************************************************************************)
(* Actions: the calls                                                      *)
(***************************************************************************)
CanCall == phase \in {"idle", "joined"}

\* a call that hands out no views to workers
Call(op, arg, res) ==
    /\ CanCall
    /\ last' = [op |-> op, arg |-> arg, res |-> res]
    /\ phase' = IF res.outcome = "ok" THEN "idle" ELSE "aborted"
    /\ wpos' = <<>>
    /\ buf0' = buf
    /\ writers' = <<>>
    /\ out_of_order' = FALSE
    /\ UNCHANGED <<buf, debug_assertions, gen, main, dec>>

\* a call whose views go to one worker each
Fork(op, arg, res) ==
    /\ CanCall
    /\ last' = [op |-> op, arg |-> arg, res |-> res]
    /\ phase' = IF res.outcome = "ok" THEN "forked" ELSE "aborted"
    /\ wpos' = TupleFrom([i \in 1..Len(res.chunks) |-> res.chunks[i][1]], 1, Len(res.chunks))
    /\ buf0' = buf
    /\ writers' = TupleFrom([j \in 1..Len(buf) |-> {}], 1, Len(buf))
    /\ out_of_order' = FALSE
    /\ UNCHANGED <<buf, debug_assertions, gen, main, dec>>

IntoChunks == \E c \in 0..MaxArg : Call("into_chunks", c, into_chunks(buf, c))
SplitInto == \E k \in 0..MaxArg : Call("split_into", k, split_into(buf, k))
IntoChunksMut == \E c \in 0..MaxArg : Call("into_chunks_mut", c, into_chunks_mut(buf, c))
SplitIntoMut == \E k \in 0..MaxArg : Call("split_into_mut", k, split_into_mut(buf, k))
IntoParChunks == \E c \in 0..MaxArg : Call("into_par_chunks", c, into_par_chunks(buf, c))
ParSplitInto == \E k \in 0..MaxArg : Call("par_split_into", k, par_split_into(buf, k))
IntoParChunksMut ==
    \E c \in 0..MaxArg : Fork("into_par_chunks_mut", c, into_par_chunks_mut(buf, c))
ParSplitIntoMut ==
    \E k \in 0..MaxArg : Fork("par_split_into_mut", k, par_split_into_mut(buf, k))

\* worker i writes the next element of its view
WorkerWrite ==
    /\ phase = "forked"
    /\ \E i \in 1..Len(wpos) :
         LET lo == last.res.chunks[i][1]
             hi == last.res.chunks[i][2]
             j == wpos[i]
         IN  /\ j < hi
             /\ j < Len(buf)
             /\ buf' = [buf EXCEPT ![j + 1] = Kernel(buf, i, lo, j)]
             /\ wpos' = [wpos EXCEPT ![i] = j + 1]
             /\ writers' = [writers EXCEPT ![j + 1] = @ \cup {i}]
             /\ out_of_order' = (out_of_order \/ \E h \in 1..(i - 1) :
                                                   wpos[h] < last.res.chunks[h][2])
    /\ UNCHANGED <<last, phase, buf0, debug_assertions, gen, main, dec>>

\* the join: every worker has finished its view
Join ==
    /\ phase = "forked"
    /\ \A i \in 1..Len(wpos) : wpos[i] >= last.res.chunks[i][2]
    /\ phase' = "joined"
    /\ UNCHANGED <<buf, last, wpos, buf0, writers, out_of_order, debug_assertions, gen, main, dec>>

Init ==
    /\ debug_assertions \in BOOLEAN
    /\ buf \in SeqsUpTo(MaxLen)
    /\ last = NoCall
    /\ phase = "idle"
    /\ wpos = <<>>
    /\ buf0 = buf
    /\ writers = <<>>
    /\ out_of_order = FALSE
    /\ gen = NoGen
    /\ main = NoMain
    /\ dec = NoDec

Next ==
    \/ IntoChunks
    \/ SplitInto
    \/ IntoChunksMut
    \/ SplitIntoMut
    \/ IntoParChunks
    \/ ParSplitInto
    \/ IntoParChunksMut
    \/ ParSplitIntoMut
    \/ WorkerWrite
    \/ Join

Spec == Init /\ [][Next]_vars

(***************************************************************************)
(* bounty.rs: generate_accumulator                                         *)
(*                                                                         *)
(* A plaintext list is a sequence of u64; element j of the Rust vector is  *)
(* element j + 1 of the sequence.                                          *)
(***************************************************************************)
Pow2(k) == Shl(U64One, k)

\* the value of a u64 below 2^24 as a number
ToNat(u) == u[1] + LimbBase * u[2] + LimbBase * LimbBase * u[3]

\* the closures f: Fn(u64) -> u64 the accumulator is built for, by name
Closures == {"double", "identity", "successor", "high"}

\* f(x) for x below 2^24
Apply(f, x) ==
    CASE f = "double" -> WrappingMul(U64(2), U64(x))
      [] f = "identity" -> U64(x)
      [] f = "successor" -> WrappingAdd(U64(x), U64One)
      [] f = "high" -> WrappingAdd(Pow2(63), U64(x))

\* f(i as u64) * delta: panics on overflow when overflow checks are compiled
\* in, wraps otherwise
BoxValueOverflows(f, i, delta) == debug_assertions /\ MulOverflows(Apply(f, i), delta)
BoxValue(f, i, delta) == WrappingMul(Apply(f, i), delta)

\* let box_size = polynomial_size.0 / message_modulus
BoxSize(polynomial_size, message_modulus) == polynomial_size \div message_modulus

\* faulty variant: the whole box taken for the half box
HalfBoxSizeWhole(box_size) == box_size

\* let half_box_size = box_size / 2
HalfBoxSize(box_size) == box_size \div 2

\* vec![0_u64; polynomial_size.0], then every box i filled with f(i) * delta
FillBoxes(polynomial_size, message_modulus, box_size, delta, f) ==
    LET values == TupleFrom([i \in 1..message_modulus |-> BoxValue(f, i - 1, delta)],
                            1, message_modulus)
    IN  TupleFrom([j \in 1..polynomial_size |->
                     IF box_size > 0 /\ (j - 1) \div box_size < message_modulus
                     THEN values[((j - 1) \div box_size) + 1]
                     ELSE U64Zero], 1, polynomial_size)

\* the first half_box_size coefficients replaced by their wrapping negation
NegateFirst(accumulator_u64, half_box_size) ==
    TupleFrom([j \in 1..Len(accumulator_u64) |->
                 IF j <= half_box_size THEN WrappingNeg(accumulator_u64[j])
                 ELSE accumulator_u64[j]], 1, Len(accumulator_u64))

\* faulty variant: the rotation done to the right
RotateRight(accumulator_u64, mid) ==
    TupleFrom([j \in 1..Len(accumulator_u64) |->
                 accumulator_u64[((j - 1 + Len(accumulator_u64) - mid)
                                    % Len(accumulator_u64)) + 1]],
              1, Len(accumulator_u64))

\* slice::rotate_left(mid): element mid becomes the first one
RotateLeft(accumulator_u64, mid) ==
    TupleFrom([j \in 1..Len(accumulator_u64) |->
                 accumulator_u64[((j - 1 + mid) % Len(accumulator_u64)) + 1]],
              1, Len(accumulator_u64))

\* allocate_and_trivially_encrypt_new_glwe_ciphertext: a GLWE ciphertext whose
\* mask polynomials are all zero and whose body is the plaintext list
TriviallyEncrypt(glwe_size, plaintext_list) ==
    [glwe_size |-> glwe_size, mask |-> "zero", body |-> plaintext_list]

\* fn generate_accumulator: the accumulator returned, or the panic that ends it
\* (a division by zero; an overflow of f(i) * delta where overflow is checked
\* and some element is written)
generate_accumulator(polynomial_size, glwe_size, message_modulus, delta, f) ==
    IF message_modulus = 0 THEN [outcome |-> "panic"]
    ELSE LET box_size == BoxSize(polynomial_size, message_modulus)
             half_box_size == HalfBoxSize(box_size)
             filled == FillBoxes(polynomial_size, message_modulus, box_size, delta, f)
             rotated == RotateLeft(NegateFirst(filled, half_box_size), half_box_size)
         IN  IF box_size > 0 /\ \E i \in 0..(message_modulus - 1) : BoxValueOverflows(f, i, delta)
             THEN [outcome |-> "panic"]
             ELSE [outcome |-> "ok",
                   accumulator |-> TriviallyEncrypt(glwe_size, rotated)]

\* size explored: the largest polynomial size and message modulus tried
MaxPolySize == 8

\* the deltas tried: the one of main, 1, and two that make f(i) * delta wrap
Deltas == {Pow2(59), U64One, Pow2(63), U64Max}

GenerateAccumulator ==
    /\ gen.pc = "called"
    /\ gen' = [gen EXCEPT !.pc = "returned",
                          !.res = generate_accumulator(gen.polynomial_size, gen.glwe_size,
                                                       gen.message_modulus, gen.delta, gen.f)]
    /\ UNCHANGED <<debug_assertions, containerVars, main, dec>>

InitAcc ==
    /\ debug_assertions \in BOOLEAN
    /\ buf = <<>> /\ last = NoCall /\ phase = "idle" /\ wpos = <<>> /\ buf0 = <<>>
    /\ writers = <<>> /\ out_of_order = FALSE
    /\ main = NoMain
    /\ dec = NoDec
    /\ \E n \in 1..MaxPolySize, p \in 0..MaxPolySize, d \in Deltas, f \in Closures :
         gen = [pc |-> "called", polynomial_size |-> n, glwe_size |-> 2,
                message_modulus |-> p, delta |-> d, f |-> f, res |-> [outcome |-> "none"]]

NextAcc == GenerateAccumulator

SpecAcc == InitAcc /\ [][NextAcc]_vars

(***************************************************************************)
(* bounty.rs: main.  Ciphertexts are held by the key they are under and    *)
(* their phase, the plaintext plus noise that decryption under that key    *)
(* returns.                                                                *)
(***************************************************************************)
PolynomialSize == 2048
GlweDimension == 1
MessageBits == 4
InputMessage == 3
SignedDecomposerBaseLog == 5
SignedDecomposerLevelCount == 1
ExpectedResult == 6

\* a noise term: its sign and magnitude
Noise(neg, mag) == [neg |-> neg, mag |-> mag]
AddNoise(x, e) == IF e.neg THEN WrappingSub(x, e.mag) ELSE WrappingAdd(x, e.mag)
Signed(mags) == {Noise(n, m) : n \in BOOLEAN, m \in mags}

\* let delta = (1_u64 << 63) / message_modulus
Delta(message_modulus) == Div(Pow2(63), message_modulus)

\* allocate_and_encrypt_new_lwe_ciphertext: an LWE encryption of the plaintext
\* under the key, with the noise drawn
Encrypt(key, plaintext, noise) == [key |-> key, phase |-> AddNoise(plaintext, noise)]

\* decrypt_lwe_ciphertext: the phase of a ciphertext under its own key
Decrypt(key, ct) == IF ct.key = key THEN ct.phase ELSE "garbage"

\* the rotation the bootstrap derives from the input phase: the phase rounded
\* to a multiple of 2^64 / 2N, in units of it, modulo 2N
ModulusSwitch(input_phase, polynomial_size) ==
    LET step == Div(Pow2(63), U64(polynomial_size))
    IN  ToNat(Div(WrappingAdd(input_phase, Shr(step, 1)), step)) % (2 * polynomial_size)

\* coefficient 0 of accumulator * X^(-r) in Z[X] / (X^N + 1): the blind rotation
\* followed by sample extraction
RotatedCoefficient(body, r) ==
    IF r < Len(body) THEN body[r + 1] ELSE WrappingNeg(body[r - Len(body) + 1])

\* programmable_bootstrap_lwe_ciphertext: the output ciphertext, under the big
\* key, of the accumulator coefficient selected by the input phase, with fresh
\* output noise
programmable_bootstrap_lwe_ciphertext(input, accumulator, noise) ==
    [key |-> "big_lwe_sk",
     phase |-> AddNoise(RotatedCoefficient(accumulator.body,
                                           ModulusSwitch(input.phase, Len(accumulator.body))),
                        noise)]

\* mt_programmable_bootstrap_lwe_ciphertext: the same result, computed in parallel
mt_programmable_bootstrap_lwe_ciphertext(input, accumulator, noise) ==
    programmable_bootstrap_lwe_ciphertext(input, accumulator, noise)

\* SignedDecomposer::closest_representable: the input rounded to the closest
\* value whose bits below the base_log * level_count most significant are zero
closest_representable(base_log, level_count, input) ==
    LET non_rep_bit_count == 64 - level_count * base_log
        shifted == Shr(input, non_rep_bit_count - 1)
        rounded == ClearLsb(WrappingAdd(shifted, U64One))
    IN  Shl(rounded, non_rep_bit_count - 1)

\* faulty variant: the division by delta without the rounding before it
DecodeTruncating(plaintext, delta) == Div(plaintext, delta)

\* signed_decomposer.closest_representable(plaintext) / delta
Decode(plaintext, delta) ==
    Div(closest_representable(SignedDecomposerBaseLog, SignedDecomposerLevelCount, plaintext),
        delta)

\* the input noises tried, in units of 2^64 / 2N: 0, the powers of two below
\* half a box, and the largest one below half a box
InputNoiseUnits(half_box_size) ==
    {0, half_box_size - 1} \cup {2^k : k \in {e \in 0..10 : 2^e < half_box_size}}

\* the noises tried on a value encoded with delta: 0, 1, and the largest one
\* below delta / 2
OutputNoiseMagnitudes(delta) == {U64Zero, U64One, WrappingSub(Shr(delta, 1), U64One)}

\* main up to the encoding of the input message
MainStart ==
    /\ main.pc = "start"
    /\ main' = [main EXCEPT !.pc = "encoded",
                            !.message_modulus = Shl(U64One, MessageBits),
                            !.input_message = U64(InputMessage),
                            !.delta = Delta(Shl(U64One, MessageBits)),
                            !.plaintext = WrappingMul(U64(InputMessage),
                                                      Delta(Shl(U64One, MessageBits)))]
    /\ UNCHANGED <<debug_assertions, containerVars, gen, dec>>

\* the encryption of the plaintext under the small key
MainEncrypt ==
    /\ main.pc = "encoded"
    /\ LET half_box_size == (PolynomialSize \div ToNat(main.message_modulus)) \div 2
           step == Div(Pow2(63), U64(PolynomialSize))
       IN  \E neg \in BOOLEAN, units \in InputNoiseUnits(half_box_size) :
             main' = [main EXCEPT
                        !.pc = "encrypted",
                        !.input_noise = Noise(neg, WrappingMul(U64(units), step)),
                        !.lwe_ciphertext_in =
                            Encrypt("small_lwe_sk", main.plaintext,
                                    Noise(neg, WrappingMul(U64(units), step)))]
    /\ UNCHANGED <<debug_assertions, containerVars, gen, dec>>

\* the accumulator for the multiplication by 2
MainGenerateAccumulator ==
    /\ main.pc = "encrypted"
    /\ LET res == generate_accumulator(PolynomialSize, GlweDimension + 1,
                                       ToNat(main.message_modulus), main.delta, "double")
       IN  main' = IF res.outcome = "ok"
                   THEN [main EXCEPT !.pc = "accumulated", !.accumulator = res.accumulator]
                   ELSE [main EXCEPT !.pc = "panicked"]
    /\ UNCHANGED <<debug_assertions, containerVars, gen, dec>>

\* if multithread { mt_programmable_bootstrap_lwe_ciphertext(...) }
MainMTPBS ==
    /\ main.pc = "accumulated"
    /\ main.multithread
    /\ \E e \in Signed(OutputNoiseMagnitudes(main.delta)) :
         main' = [main EXCEPT
                    !.pc = "bootstrapped",
                    !.output_noise = e,
                    !.pbs_multiplication_ct =
                        mt_programmable_bootstrap_lwe_ciphertext(main.lwe_ciphertext_in,
                                                                 main.accumulator, e)]
    /\ UNCHANGED <<debug_assertions, containerVars, gen, dec>>

\* else { programmable_bootstrap_lwe_ciphertext(...) }
MainPBS ==
    /\ main.pc = "accumulated"
    /\ ~main.multithread
    /\ \E e \in Signed(OutputNoiseMagnitudes(main.delta)) :
         main' = [main EXCEPT
                    !.pc = "bootstrapped",
                    !.output_noise = e,
                    !.pbs_multiplication_ct =
                        programmable_bootstrap_lwe_ciphertext(main.lwe_ciphertext_in,
                                                              main.accumulator, e)]
    /\ UNCHANGED <<debug_assertions, containerVars, gen, dec>>

\* decryption under the big key, decoding, and assert_eq!(6, result)
MainDecryptAndCheck ==
    /\ main.pc = "bootstrapped"
    /\ LET result == Decode(Decrypt("big_lwe_sk", main.pbs_multiplication_ct), main.delta)
       IN  main' = [main EXCEPT
                      !.pc = IF result = U64(ExpectedResult) THEN "done" ELSE "assert_failed",
                      !.pbs_multiplication_result = result]
    /\ UNCHANGED <<debug_assertions, containerVars, gen, dec>>

InitMain ==
    /\ debug_assertions \in BOOLEAN
    /\ buf = <<>> /\ last = NoCall /\ phase = "idle" /\ wpos = <<>> /\ buf0 = <<>>
    /\ writers = <<>> /\ out_of_order = FALSE
    /\ gen = NoGen
    /\ dec = NoDec
    /\ \E mt \in BOOLEAN :
         main = [pc |-> "start", multithread |-> mt, message_modulus |-> "unset",
                 input_message |-> "unset", delta |-> "unset", plaintext |-> "unset",
                 input_noise |-> "unset", lwe_ciphertext_in |-> "unset",
                 accumulator |-> "unset", output_noise |-> "unset",
                 pbs_multiplication_ct |-> "unset", pbs_multiplication_result |-> "unset"]

NextMain ==
    \/ MainStart
    \/ MainEncrypt
    \/ MainGenerateAccumulator
    \/ MainMTPBS
    \/ MainPBS
    \/ MainDecryptAndCheck

SpecMain == InitMain /\ [][NextMain]_vars

(***************************************************************************)
(* The decoder on its own: every message of the message space, encoded     *)
(* with delta and offset by a noise below delta / 2.                       *)
(***************************************************************************)
NoiseExponents == {0, 19, 38, 57}

\* the noise magnitudes tried: 0, and 2^k and delta / 2 - 2^k for the exponents
DecoderNoiseMagnitudes(delta) ==
    {U64Zero} \cup {Pow2(k) : k \in NoiseExponents}
              \cup {WrappingSub(Shr(delta, 1), Pow2(k)) : k \in NoiseExponents}

DecodeStep ==
    /\ dec.pc = "raw"
    /\ dec' = [dec EXCEPT !.pc = "decoded", !.result = Decode(dec.raw, dec.delta)]
    /\ UNCHANGED <<debug_assertions, containerVars, gen, main>>

InitDec ==
    /\ debug_assertions \in BOOLEAN
    /\ buf = <<>> /\ last = NoCall /\ phase = "idle" /\ wpos = <<>> /\ buf0 = <<>>
    /\ writers = <<>> /\ out_of_order = FALSE
    /\ gen = NoGen
    /\ main = NoMain
    /\ LET delta == Delta(Shl(U64One, MessageBits))
       IN  \E m \in 0..(2^MessageBits - 1), e \in Signed(DecoderNoiseMagnitudes(delta)) :
             dec = [pc |-> "raw", message |-> m, noise |-> e, delta |-> delta,
                    raw |-> AddNoise(WrappingMul(U64(m), delta), e), result |-> "unset"]

NextDec == DecodeStep

SpecDec == InitDec /\ [][NextDec]_vars

(***************************************************************************)
(* Properties of the chunking traits                                       *)
(***************************************************************************)
SplitIntoOps == {"split_into", "split_into_mut"}
IntoChunksOps == {"into_chunks", "into_chunks_mut"}
ParSplitIntoOps == {"par_split_into", "par_split_into_mut"}
IntoParChunksOps == {"into_par_chunks", "into_par_chunks_mut"}

\* the elements of self a chunk view covers
ChunkData(self, r) == SubSeq(self, r[1] + 1, r[2])

RECURSIVE Concat(_, _, _)
\* the chunks from chunk i on, concatenated
Concat(self, chunks, i) ==
    IF i > Len(chunks) THEN <<>>
    ELSE ChunkData(self, chunks[i]) \o Concat(self, chunks, i + 1)

\* res is n chunks of size elements each, in order, that concatenate to self
ExactChunking(self, res, n, size) ==
    /\ res.outcome = "ok"
    /\ Len(res.chunks) = n
    /\ \A i \in 1..n : res.chunks[i] = <<(i - 1) * size, i * size>>
    /\ Concat(self, res.chunks, 1) = self

\* every index of 0..len-1 lies in exactly one view
CoversOnce(chunks, len) ==
    \A j \in 0..(len - 1) :
        Cardinality({i \in 1..Len(chunks) : chunks[i][1] <= j /\ j < chunks[i][2]}) = 1

PairwiseDisjoint(chunks) ==
    \A g, h \in 1..Len(chunks) :
        g # h => (chunks[g][2] <= chunks[h][1] \/ chunks[h][2] <= chunks[g][1])

\* C1: split_into(k) with k >= 1 dividing the length L (L = 0 included) yields
\* exactly k chunks of L / k elements each, in order, concatenating to the buffer
C1_SplitIntoYieldsCountChunks ==
    (last.op \in SplitIntoOps /\ last.arg >= 1 /\ Len(buf0) % last.arg = 0)
        => ExactChunking(buf0, last.res, last.arg, Len(buf0) \div last.arg)

\* C2 as stated: split_into(0) on an empty buffer yields one zero-length chunk
C2_SplitIntoZeroYieldsOneEmptyChunk ==
    (last.op \in SplitIntoOps /\ last.arg = 0 /\ Len(buf0) = 0)
        => /\ last.res.outcome = "ok"
           /\ Len(last.res.chunks) = 1
           /\ last.res.chunks[1][2] - last.res.chunks[1][1] = 0

\* C2 amended: split_into(0) on an empty buffer returns normally and yields no
\* chunk at all
C2_SplitIntoZeroYieldsNoChunk ==
    (last.op \in SplitIntoOps /\ last.arg = 0 /\ Len(buf0) = 0)
        => (last.res.outcome = "ok" /\ last.res.chunks = <<>> /\ phase # "aborted")

C2_Witness ==
    last.op = "split_into_mut" /\ last.arg = 0 /\ Len(buf0) = 0 /\ phase = "idle"

\* C3: into_chunks(c) with c >= 1 dividing the length L yields exactly L / c
\* chunks of c elements each, in order, concatenating to the buffer
C3_IntoChunksYieldsSizedChunks ==
    (last.op \in IntoChunksOps /\ last.arg >= 1 /\ Len(buf0) % last.arg = 0)
        => ExactChunking(buf0, last.res, Len(buf0) \div last.arg, last.arg)

C3_Witness ==
    /\ last.op = "into_chunks_mut" /\ last.arg = 2 /\ Len(buf0) = 4
    /\ Len(last.res.chunks) = 2

\* the sequential calls that break the divisibility contract
ViolatesDivisibility ==
    \/ last.op \in IntoChunksOps /\ last.arg >= 1 /\ Len(buf0) % last.arg # 0
    \/ last.op \in SplitIntoOps /\ last.arg >= 1 /\ Len(buf0) % last.arg # 0
    \/ last.op \in SplitIntoOps /\ last.arg = 0 /\ Len(buf0) # 0

\* C4 as stated: a sequential call that violates divisibility ends in an
\* assertion failure and returns no chunk sequence
C4_ViolationAlwaysAsserts ==
    ViolatesDivisibility => (last.res.outcome = "assert_failed" /\ phase = "aborted")

\* the chunk length the unchecked call hands to chunks_exact
UncheckedChunkLen ==
    IF last.op \in IntoChunksOps THEN last.arg
    ELSE IF last.arg = 0 THEN 1
    ELSE Len(buf0) \div last.arg

\* C4 amended: with debug assertions compiled in, a sequential call that
\* violates divisibility ends in an assertion failure and returns no chunk
\* sequence; with them compiled out nothing is checked: the call panics in
\* chunks_exact when the chunk length is 0, and otherwise returns
\* floor(L / len) chunks of len elements that leave out the last L mod len
C4_ViolationAssertsInDebugBuilds ==
    ViolatesDivisibility =>
        IF debug_assertions
        THEN last.res.outcome = "assert_failed" /\ phase = "aborted"
        ELSE IF UncheckedChunkLen = 0
        THEN last.res.outcome = "panic" /\ phase = "aborted"
        ELSE /\ last.res.outcome = "ok"
             /\ Len(last.res.chunks) = Len(buf0) \div UncheckedChunkLen
             /\ Concat(buf0, last.res.chunks, 1)
                  = SubSeq(buf0, 1, Len(buf0) - (Len(buf0) % UncheckedChunkLen))

C4_Witness ==
    /\ debug_assertions /\ last.op = "into_chunks" /\ last.arg = 2 /\ Len(buf0) = 3
    /\ last.res.outcome = "assert_failed" /\ phase = "aborted"

C9_ParallelChunksExclusive ==
    (last.op \in {"into_par_chunks_mut", "par_split_into_mut"} /\ last.res.outcome = "ok")
        => /\ PairwiseDisjoint(last.res.chunks)
           /\ CoversOnce(last.res.chunks, Len(buf0))
           /\ \A j \in 1..Len(writers) : Cardinality(writers[j]) <= 1
           /\ phase = "joined" => buf = ProcessInOrder(buf0, last.res.chunks, 1)

C9_Witness ==
    /\ last.op = "into_par_chunks_mut" /\ last.arg = 2 /\ Len(buf0) = 5
    /\ phase = "joined" /\ out_of_order /\ buf # buf0

\* C10: the parallel calls check no divisibility: on a non-empty buffer of
\* length L, into_par_chunks(c) with c >= 1 not dividing L returns ceil(L / c)
\* chunks, the last of L mod c elements, and par_split_into(k) with
\* 1 <= k <= L not dividing L returns ceil(L / floor(L / k)) chunks; every
\* element lies in exactly one chunk
C10_ParallelChunksUnchecked ==
    /\ (last.op \in IntoParChunksOps /\ last.arg >= 1 /\ Len(buf0) % last.arg # 0)
         => /\ last.res.outcome = "ok"
            /\ Len(last.res.chunks) = (Len(buf0) + last.arg - 1) \div last.arg
            /\ LET t == last.res.chunks[Len(last.res.chunks)]
               IN  t[2] - t[1] = Len(buf0) % last.arg
            /\ \A i \in 1..(Len(last.res.chunks) - 1) :
                 last.res.chunks[i][2] - last.res.chunks[i][1] = last.arg
            /\ CoversOnce(last.res.chunks, Len(buf0))
            /\ Concat(buf0, last.res.chunks, 1) = buf0
    /\ (last.op \in ParSplitIntoOps /\ last.arg >= 1 /\ last.arg <= Len(buf0)
          /\ Len(buf0) % last.arg # 0)
         => LET size == Len(buf0) \div last.arg
            IN  /\ last.res.outcome = "ok"
                /\ Len(last.res.chunks) = (Len(buf0) + size - 1) \div size
                /\ CoversOnce(last.res.chunks, Len(buf0))
                /\ Concat(buf0, last.res.chunks, 1) = buf0

C10_Witness ==
    /\ last.op = "par_split_into" /\ last.arg = 2 /\ Len(buf0) = 5
    /\ last.res = Returned(<<<<0, 2>>, <<2, 4>>, <<4, 5>>>>)

(***************************************************************************)
(* Properties of generate_accumulator                                      *)
(***************************************************************************)
\* C6: when message_modulus p divides polynomial_size N, with box_size = N / p
\* and half = box_size / 2, the accumulator's plaintext acc has, in 64-bit
\* wrapping arithmetic, acc[j] = f((j + half) div box_size) * delta for j in
\* [0, N - half) and acc[j] = -(f(0) * delta) for j in [N - half, N); so the
\* value at each box centre i * box_size is f(i) * delta
C6_AccumulatorLayout ==
    (gen.pc = "returned" /\ gen.res.outcome = "ok" /\ gen.message_modulus >= 1
       /\ gen.polynomial_size % gen.message_modulus = 0)
    => LET N == gen.polynomial_size
           box_size == N \div gen.message_modulus
           half == box_size \div 2
           acc == gen.res.accumulator.body
       IN  /\ Len(acc) = N
           /\ \A j \in 0..(N - half - 1) :
                acc[j + 1] = WrappingMul(Apply(gen.f, (j + half) \div box_size), gen.delta)
           /\ \A j \in (N - half)..(N - 1) :
                acc[j + 1] = WrappingNeg(WrappingMul(Apply(gen.f, 0), gen.delta))
           /\ \A i \in 0..(gen.message_modulus - 1) :
                acc[i * box_size + 1] = WrappingMul(Apply(gen.f, i), gen.delta)

C6_Witness ==
    /\ gen.pc = "returned" /\ gen.res.outcome = "ok"
    /\ gen.polynomial_size = 8 /\ gen.message_modulus = 4
    /\ gen.f = "successor" /\ gen.delta = Pow2(59)
    /\ gen.res.accumulator.body
         = <<Pow2(59), Pow2(60), Pow2(60), WrappingMul(U64(3), Pow2(59)),
             WrappingMul(U64(3), Pow2(59)), Pow2(61), Pow2(61), WrappingNeg(Pow2(59))>>

C8_DecoderRecoversMessage ==
    dec.pc = "decoded" => dec.result = U64(dec.message)

C8_Witness ==
    /\ dec.pc = "decoded" /\ dec.message = 0
    /\ dec.noise = Noise(TRUE, WrappingSub(Pow2(58), U64One))
    /\ Bit(dec.raw, 63) = 1
    /\ dec.result = U64Zero

=============================================================================
